---- MODULE Spec2Model ----
(***************************************************************************)
(* Model of the documentation update manager                               *)
(* (src/fastapi_backend/app/services/update_manager.py).                   *)
(*                                                                         *)
(* The persisted state is the pending store (pending_updates.json), the    *)
(* applied store (applied_updates.json), the documentation files and the   *)
(* backup files written next to them.  Text is a sequence of characters.   *)
(* A batch_id "batch_<YYYYmmdd_HHMMSS>" is modelled by the second t of the *)
(* clock it was formatted from (the format is fixed-width, so the mapping  *)
(* is one to one), a suggestion_id "<batch_id>_<i>" by the pair <<t, i>>,  *)
(* and a backup path "<file>.backup.<YYYYmmdd_HHMMSS>" by <<file, t>>.     *)
(***************************************************************************)
EXTENDS Integers, Sequences, FiniteSets, TLC

VARIABLES
    now,        \* datetime.now(), truncated to the second
    docs,       \* documentation files: path -> content (domain = existing files)
    backups,    \* backup files: <<path, t>> -> content (domain = existing files)
    pending,    \* pending_updates.json: sequence of batches
    applied,    \* applied_updates.json: sequence of batches
    pc,         \* position inside approve_suggestions ("idle" between calls)
    mem,        \* local variables of the running approve_suggestions call
    last,       \* value returned by the last call ("running" until it returns)
    created,    \* number of suggestion dicts built so far
    obj,        \* every suggestion dict ever built: its fields over time
    writer,     \* per file, the suggestion whose patch wrote it last, if any
    corrupt,    \* the store files that are unreadable or not valid JSON
    gen         \* the analyzer: its section, the generator's answer, its output

vars ==
    <<now, docs, backups, pending, applied, pc, mem, last, created, obj, writer,
      corrupt, gen>>

stores == <<docs, backups, pending, applied>>

----------------------------------------------------------------------------
(* Bounds of the model *)

MaxClock == 1
MaxSuggestions == 2
\* longest original_content of a generator answer with one suggestion, and
\* with two suggestions
MaxLen == 6
MaxPairLen == 2
\* most candidate sections handed to the analyzer with one answer
MaxCandidates == 2

(* The documentation files at start, a path with no file, and the          *)
(* suggestions the generator may submit: (file_path, original, suggested,  *)
(* confidence_score in tenths), each with the id and the title of the      *)
(* section it was built for.                                               *)
InitDocs == [f |-> <<"a", "b", "a">>, g |-> <<"b">>]

Paths == {"f", "g", "m"}

Catalogue ==
    { [path |-> "f", orig |-> <<"a">>, sugg |-> <<"c">>, conf |-> 9,
       section_id |-> "f", section_title |-> <<"f">>],
      [path |-> "f", orig |-> <<"b">>, sugg |-> <<"a">>, conf |-> 9,
       section_id |-> "f", section_title |-> <<"f">>],
      [path |-> "g", orig |-> <<"b">>, sugg |-> <<"a">>, conf |-> 9,
       section_id |-> "g", section_title |-> <<"g">>],
      [path |-> "m", orig |-> <<"a">>, sugg |-> <<"b">>, conf |-> 9,
       section_id |-> "m", section_title |-> <<"m">>] }

Clock == 0..MaxClock
BatchIds == Clock
AllIds == Clock \X (0..(MaxSuggestions - 1))

\* the suggestion dicts, numbered in the order they are built
Uids == 1..MaxSuggestions

NoBackup == <<>>
NoWriter == {}

----------------------------------------------------------------------------
(* Text *)

\* p occurs in s at position i
OccursAt(p, s, i) ==
    /\ i + Len(p) - 1 <= Len(s)
    /\ \A j \in 1..Len(p) : s[i + j - 1] = p[j]

\* Python: p in s
Contains(p, s) == \E i \in 1..(Len(s) + 1) : OccursAt(p, s, i)

RECURSIVE ReplaceFrom(_, _, _, _)
ReplaceFrom(s, old, new, i) ==
    IF i > Len(s)
    THEN (IF old = <<>> THEN new ELSE <<>>)
    ELSE IF old = <<>>
         THEN new \o <<s[i]>> \o ReplaceFrom(s, old, new, i + 1)
         ELSE IF OccursAt(old, s, i)
              THEN new \o ReplaceFrom(s, old, new, i + Len(old))
              ELSE <<s[i]>> \o ReplaceFrom(s, old, new, i + 1)

\* Python: s.replace(old, new), every non-overlapping occurrence, left to right
StrReplace(s, old, new) == ReplaceFrom(s, old, new, 1)

\* "\n\n<!-- UPDATED: " and " -->\n", each as one token
AddPrefix == <<"<">>
AddSuffix == <<">">>

\* the block put in front of the old content instead of after it
PrependedContent(content, sugg) == AddPrefix \o sugg \o AddSuffix \o content

AppendedContent(content, sugg) == content \o AddPrefix \o sugg \o AddSuffix

----------------------------------------------------------------------------
(* Sequences *)

Flatten(batches) ==
    LET RECURSIVE F(_)
        F(k) == IF k > Len(batches) THEN <<>>
                ELSE batches[k].suggestions \o F(k + 1)
    IN F(1)

RemoveAt(s, i) == SubSeq(s, 1, i - 1) \o SubSeq(s, i + 1, Len(s))

\* index of the first batch with this batch_id, 0 when there is none
FindBatch(batches, b) ==
    IF \E i \in 1..Len(batches) : batches[i].batch_id = b
    THEN CHOOSE i \in 1..Len(batches) :
             /\ batches[i].batch_id = b
             /\ \A j \in 1..(i - 1) : batches[j].batch_id # b
    ELSE 0

Range(s) == {s[i] : i \in 1..Len(s)}

----------------------------------------------------------------------------
(* State *)

NoObj == [id |-> <<-1, -1>>, path |-> "", status |-> "none", pre |-> <<>>]

NoCur == [content |-> <<>>, updated |-> <<>>, bpath |-> NoBackup, kind |-> ""]

NoMem ==
    [batch |-> -1, ids |-> {}, pend |-> <<>>, idx |-> 0, tb |-> <<>>, k |-> 0,
     succ |-> <<>>, nchanges |-> 0, cur |-> NoCur]

\* what an operation returns: "error" is the presence of the "error" key
Result(op, arg, err, ok, failed) ==
    [op |-> op, arg |-> arg, error |-> err, ok |-> ok, failed |-> failed]

\* the analyzer at rest
NoGen == [section |-> [id |-> "", title |-> <<>>, file_path |-> "",
                       content |-> <<>>],
          todo |-> <<>>,
          out |-> <<>>, tiers |-> <<>>, phase |-> "idle"]

\* json.load with the "except: <empty list>" of lines 76-77, 95-96, 360-361,
\* 394-395: an unreadable store is read as the empty list
LoadOrEmpty(store, name) == IF name \in corrupt THEN <<>> ELSE store

Init ==
    /\ now = 0
    /\ docs = InitDocs
    /\ backups = << >>
    /\ pending = << >>
    /\ applied = << >>
    /\ pc = "idle"
    /\ mem = NoMem
    /\ last = Result("init", <<>>, FALSE, 0, 0)
    /\ created = 0
    /\ obj = [u \in Uids |-> NoObj]
    /\ writer = [p \in Paths |-> NoWriter]
    /\ corrupt = {}
    /\ gen = NoGen

\* the clock advances at any moment, also in the middle of an operation
Tick ==
    /\ now < MaxClock
    /\ now' = now + 1
    /\ UNCHANGED <<docs, backups, pending, applied, pc, mem, last, created,
                   obj, writer, corrupt, gen>>

----------------------------------------------------------------------------
(* save_pending_updates *)

BatchInputs(room) == UNION {[1..n -> Catalogue] : n \in 1..room}

\* the suggestion dict built for the i-th (0-based) suggestion of a batch
NewSuggestion(batch_id, i, s, n) ==
    [uid |-> n + i + 1, id |-> <<batch_id, i>>,
     section_id |-> s.section_id, section_title |-> s.section_title,
     path |-> s.path, orig |-> s.orig, sugg |-> s.sugg, conf |-> s.conf,
     status |-> "pending", backup |-> NoBackup]

\* the suggestions stored in the reverse of the input order
NewBatchReversed(batch_id, suggestions, n) ==
    [batch_id |-> batch_id,
     suggestions |-> [j \in 1..Len(suggestions) |->
                         NewSuggestion(batch_id, j - 1,
                             suggestions[Len(suggestions) + 1 - j], n)]]

NewBatch(batch_id, suggestions, n) ==
    [batch_id |-> batch_id,
     suggestions |-> [j \in 1..Len(suggestions) |->
                         NewSuggestion(batch_id, j - 1, suggestions[j], n)]]

\* save_pending_updates; the caller says what becomes of the analyzer
SavePendingUpdates(suggestions) ==
    /\ pc = "idle"
    /\ created + Len(suggestions) <= MaxSuggestions
    /\ LET batch_id == now
           update_batch == NewBatch(batch_id, suggestions, created)
       IN  /\ pending' = Append(LoadOrEmpty(pending, "pending"), update_batch)
           /\ corrupt' = corrupt \ {"pending"}
           /\ obj' = [u \in Uids |->
                        IF created < u /\ u <= created + Len(suggestions)
                        THEN [id |-> <<batch_id, u - created - 1>>,
                              path |-> suggestions[u - created].path,
                              status |-> "pending", pre |-> <<>>]
                        ELSE obj[u]]
           /\ last' = Result("createBatch", <<>>, FALSE, Len(suggestions), 0)
    /\ created' = created + Len(suggestions)
    /\ UNCHANGED <<now, docs, backups, applied, pc, mem, writer>>

CreateBatch(suggestions) ==
    /\ SavePendingUpdates(suggestions)
    /\ UNCHANGED gen

----------------------------------------------------------------------------
(* get_pending_updates *)

\* the optional batch_id argument: <<>> when absent, <<b>> when given
Filters == {<<>>} \cup {<<b>> : b \in BatchIds}

\* lines 102-105: the suggestions of a batch that are pending
PendingOnly(suggestions) ==
    SelectSeq(suggestions, LAMBDA s : s.status = "pending")

\* every batch passes, whatever batch_id was asked for
MatchesAny(batch, batch_id) == TRUE

\* lines 113-114: the batch passes the batch_id argument
MatchesFilter(batch, batch_id) ==
    batch_id = <<>> \/ batch.batch_id = batch_id[1]

\* lines 99-116: the list returned for a stored list of batches
RECURSIVE FilteredUpdates(_, _, _)
FilteredUpdates(batches, batch_id, i) ==
    IF i > Len(batches) THEN <<>>
    ELSE LET batch == batches[i]
             pending_suggestions == PendingOnly(batch.suggestions)
             rest == FilteredUpdates(batches, batch_id, i + 1)
         IN  IF pending_suggestions # <<>> /\ MatchesFilter(batch, batch_id)
             THEN <<[batch EXCEPT !.suggestions = pending_suggestions]>>
                      \o rest
             ELSE rest

GetPendingUpdates(batches, batch_id) == FilteredUpdates(batches, batch_id, 1)

GetPending(batch_id) ==
    /\ pc = "idle"
    /\ last' = Result("listPending", batch_id, FALSE,
                      Len(GetPendingUpdates(LoadOrEmpty(pending, "pending"),
                                            batch_id)), 0)
    /\ UNCHANGED <<now, docs, backups, pending, applied, pc, mem, created,
                   obj, writer, corrupt, gen>>

----------------------------------------------------------------------------
(* reject_suggestions *)

\* ids a caller may pass with a batch_id: suggestions of that batch, and
\* possibly one id that is not in it (stale, of another batch, or unknown)
IdSets(batch_id) ==
    LET idx == FindBatch(pending, batch_id)
        own == IF idx = 0 THEN {}
               ELSE {s.id : s \in Range(pending[idx].suggestions)}
    IN  {S \cup E : S \in SUBSET own,
                    E \in {{}} \cup {{x} : x \in AllIds \ own}}

\* obj with the status of the listed dicts set
SetStatus(o, uids, st) ==
    [u \in Uids |-> IF u \in uids THEN [o[u] EXCEPT !.status = st] ELSE o[u]]

\* the filter of lines 190-193 and 328-331 left out: everything is kept
KeepAll(suggestions, ids) == suggestions

\* the filter of lines 328-331 dropping every suggestion of the batch
KeepNone(suggestions, ids) == <<>>

\* the filter of lines 190-193 and 328-331 giving the kept suggestions in
\* the reverse order
KeepNotInReversed(suggestions, ids) ==
    LET kept == SelectSeq(suggestions, LAMBDA s : s.id \notin ids)
    IN  [j \in 1..Len(kept) |-> kept[Len(kept) + 1 - j]]

KeepNotIn(suggestions, ids) ==
    SelectSeq(suggestions, LAMBDA s : s.id \notin ids)

\* lines 196-198 and 334-336 left out: an emptied batch stays in the list
PutBatchNoPop(batches, idx, remaining) ==
    [batches EXCEPT ![idx].suggestions = remaining]

\* the batch list with batch idx holding `remaining`, popped when empty
PutBatch(batches, idx, remaining) ==
    IF remaining = <<>>
    THEN RemoveAt(batches, idx)
    ELSE [batches EXCEPT ![idx].suggestions = remaining]

Reject(batch_id, rejected_suggestion_ids) ==
    /\ pc = "idle"
    /\ LET idx == FindBatch(pending, batch_id) IN
       IF "pending" \in corrupt \/ idx = 0
       THEN /\ last' = Result("reject", <<>>, TRUE, 0, 0)
            /\ UNCHANGED <<pending, obj>>
       ELSE LET sugs == pending[idx].suggestions
                marked == [j \in 1..Len(sugs) |->
                              IF sugs[j].id \in rejected_suggestion_ids
                              THEN [sugs[j] EXCEPT !.status = "rejected"]
                              ELSE sugs[j]]
                hit == {s.uid : s \in {x \in Range(sugs) :
                                        x.id \in rejected_suggestion_ids}}
            IN  /\ obj' = SetStatus(obj, hit, "rejected")
                /\ pending' = PutBatch(pending, idx,
                                KeepNotIn(marked, rejected_suggestion_ids))
                /\ last' = Result("reject", <<>>, FALSE,
                                  Cardinality(rejected_suggestion_ids), 0)
    /\ UNCHANGED <<now, docs, backups, applied, pc, mem, created, writer,
                   corrupt, gen>>

----------------------------------------------------------------------------
(* approve_suggestions, one action per write to disk *)

\* the loop of lines 160-175 left after its first element
NextApprovedStop(tb, ids, k) ==
    IF k = 0 /\ \E j \in 1..Len(tb) : tb[j].id \in ids
    THEN CHOOSE j \in 1..Len(tb) :
             /\ tb[j].id \in ids
             /\ \A i \in 1..(j - 1) : tb[i].id \notin ids
    ELSE Len(tb) + 1

\* position of the next element of approved_suggestions after position k
NextApproved(tb, ids, k) ==
    IF \E j \in (k + 1)..Len(tb) : tb[j].id \in ids
    THEN CHOOSE j \in (k + 1)..Len(tb) :
             /\ tb[j].id \in ids
             /\ \A i \in (k + 1)..(j - 1) : tb[i].id \notin ids
    ELSE Len(tb) + 1

\* lines 123-155: load the pending store, find the batch, mark the approved
ApproveCall(batch_id, approved_suggestion_ids) ==
    /\ pc = "idle"
    /\ LET idx == FindBatch(pending, batch_id) IN
       IF "pending" \in corrupt \/ idx = 0
       THEN /\ last' = Result("approve", <<>>, TRUE, 0, 0)
            /\ UNCHANGED <<pc, mem, obj>>
       ELSE LET sugs == pending[idx].suggestions
                tb == [j \in 1..Len(sugs) |->
                          IF sugs[j].id \in approved_suggestion_ids
                          THEN [sugs[j] EXCEPT !.status = "approved"]
                          ELSE sugs[j]]
                hit == {s.uid : s \in {x \in Range(sugs) :
                                        x.id \in approved_suggestion_ids}}
            IN  /\ obj' = SetStatus(obj, hit, "approved")
                /\ mem' = [batch |-> batch_id, ids |-> approved_suggestion_ids,
                           pend |-> pending, idx |-> idx, tb |-> tb,
                           k |-> NextApproved(tb, approved_suggestion_ids, 0),
                           succ |-> <<>>, nchanges |-> 0, cur |-> NoCur]
                /\ pc' = "apply"
                /\ last' = Result("running", <<>>, FALSE, 0, 0)
    /\ UNCHANGED <<now, docs, backups, pending, applied, created, writer,
                   corrupt, gen>>

\* _apply_suggestion_to_file, lines 248-250 and 273: the new file content
UpdatedContent(file_content, original_content, suggested_content) ==
    IF Contains(original_content, file_content)
    THEN StrReplace(file_content, original_content, suggested_content)
    ELSE AppendedContent(file_content, suggested_content)

PatchKind(file_content, original_content) ==
    IF Contains(original_content, file_content)
    THEN "applied" ELSE "applied_as_addition"

\* _apply_suggestion_to_file, lines 253 and 275
BackupPath(file_path, t) == <<file_path, t>>

\* the backup given the new content instead of the old one
BackupContentUpdated(file_content, updated_content) == updated_content

\* _apply_suggestion_to_file, lines 255 and 277: what the backup is given
BackupContent(file_content, updated_content) == file_content

\* _apply_suggestion_to_file up to the backup write (lines 228-255, 273-277);
\* a missing file raises, and approve_suggestions marks the suggestion failed
ApplyBackup ==
    /\ pc = "apply"
    /\ mem.k <= Len(mem.tb)
    /\ LET s == mem.tb[mem.k]
           file_path == s.path
       IN  IF file_path \notin DOMAIN docs
           THEN /\ mem' = [mem EXCEPT
                             !.tb[mem.k].status = "failed",
                             !.k = NextApproved(mem.tb, mem.ids, mem.k)]
                /\ obj' = SetStatus(obj, {s.uid}, "failed")
                /\ UNCHANGED <<backups, pc>>
           ELSE LET file_content == docs[file_path]
                    backup_path == BackupPath(file_path, now)
                    updated_content ==
                        UpdatedContent(file_content, s.orig, s.sugg)
                IN  /\ backups' =
                         (backup_path :> BackupContent(file_content,
                                                       updated_content))
                             @@ backups
                    /\ mem' = [mem EXCEPT !.cur =
                                 [content |-> file_content,
                                  updated |-> updated_content,
                                  bpath |-> backup_path,
                                  kind |-> PatchKind(file_content, s.orig)]]
                    /\ pc' = "write"
                    /\ UNCHANGED obj
    /\ UNCHANGED <<now, docs, pending, applied, last, created, writer,
                   corrupt, gen>>

\* line 166 left out: the dict keeps the status approved
AppliedKeepsStatus(s, backup_path) == [s EXCEPT !.backup = backup_path]

\* the suggestion dict after a successful patch (lines 165-168)
Applied(s, backup_path) ==
    [s EXCEPT !.status = "successfully_applied", !.backup = backup_path]

\* _apply_suggestion_to_file from the document write on (lines 258-269,
\* 279-290), and the bookkeeping of approve_suggestions (lines 163-168)
ApplyWrite ==
    /\ pc = "write"
    /\ LET s == mem.tb[mem.k]
           done == Applied(s, mem.cur.bpath)
       IN  /\ docs' = (s.path :> mem.cur.updated) @@ docs
           /\ mem' = [mem EXCEPT
                        !.tb[mem.k] = done,
                        !.succ = Append(@, done),
                        !.nchanges = @ + 1,
                        !.cur = NoCur,
                        !.k = NextApproved(mem.tb, mem.ids, mem.k)]
           /\ obj' = [obj EXCEPT ![s.uid].status = "successfully_applied",
                                 ![s.uid].pre = mem.cur.content]
           /\ writer' = [writer EXCEPT ![s.path] = {s.uid}]
    /\ pc' = "apply"
    /\ UNCHANGED <<now, backups, pending, applied, last, created, corrupt, gen>>

\* lines 183-185 left out: the failed suggestions are not collected
ProcessedIdsAppliedOnly(tb, succ) == {s.id : s \in Range(succ)}

\* lines 179-185: ids of the suggestions applied or failed
ProcessedIds(tb, succ) ==
    {s.id : s \in Range(succ)}
        \cup {s.id : s \in {x \in Range(tb) : x.status = "failed"}}

\* lines 189-193 left out: the processed suggestions stay in the batch
PendingAfterApproveKeep(m) == [m.pend EXCEPT ![m.idx].suggestions = m.tb]

\* lines 189-198: the pending list to write back
PendingAfterApprove(m) ==
    LET batches == [m.pend EXCEPT ![m.idx].suggestions = m.tb]
    IN  PutBatch(batches, m.idx,
                 KeepNotIn(m.tb, ProcessedIds(m.tb, m.succ)))

\* failed_count always reported as zero
ApproveResultNoFailed(m) == Result("approve", <<>>, FALSE, Len(m.succ), 0)

\* lines 212-218
ApproveResult(m) ==
    Result("approve", <<>>, FALSE, Len(m.succ),
           Cardinality({j \in 1..Len(m.tb) : m.tb[j].id \in m.ids})
               - Len(m.succ))

\* lines 179-205: drop the processed suggestions, write the pending store
ApproveSave ==
    /\ pc = "apply"
    /\ mem.k > Len(mem.tb)
    /\ pending' = PendingAfterApprove(mem)
    /\ IF mem.succ # <<>>
       THEN /\ pc' = "move"
            /\ UNCHANGED <<mem, last>>
       ELSE /\ pc' = "idle"
            /\ mem' = NoMem
            /\ last' = ApproveResult(mem)
    /\ corrupt' = corrupt \ {"pending"}
    /\ UNCHANGED <<now, docs, backups, applied, created, obj, writer, gen>>

\* _move_to_applied, lines 363-380: the applied list to write
AppliedAfterMove(batches, batch_id, approved_suggestions) ==
    LET existing_batch_index == FindBatch(batches, batch_id) IN
    IF existing_batch_index # 0
    THEN [batches EXCEPT ![existing_batch_index].suggestions =
                             @ \o approved_suggestions]
    ELSE Append(batches, [batch_id |-> batch_id,
                          suggestions |-> approved_suggestions])

\* lines 207-218: _move_to_applied writes the applied store, then return
ApproveMove ==
    /\ pc = "move"
    /\ applied' = AppliedAfterMove(LoadOrEmpty(applied, "applied"),
                                   mem.batch, mem.succ)
    /\ corrupt' = corrupt \ {"applied"}
    /\ pc' = "idle"
    /\ mem' = NoMem
    /\ last' = ApproveResult(mem)
    /\ UNCHANGED <<now, docs, backups, pending, created, obj, writer, gen>>

----------------------------------------------------------------------------
(* revert_update *)

\* lines 427-434: <<batch index, suggestion index>> of the first suggestion
\* with this id in the applied store, <<0, 0>> when there is none
FindSuggestion(batches, suggestion_id) ==
    LET hits == {bs \in (1..Len(batches)) \X (1..MaxSuggestions) :
                    /\ bs[2] <= Len(batches[bs[1]].suggestions)
                    /\ batches[bs[1]].suggestions[bs[2]].id = suggestion_id}
    IN  IF hits = {} THEN <<0, 0>>
        ELSE CHOOSE h \in hits :
                 \A o \in hits : h[1] < o[1] \/ (h[1] = o[1] /\ h[2] <= o[2])

\* shutil.move(backup_path, file_path) on the two sets of files
MoveDocs(d, b, backup_path, file_path) == (file_path :> b[backup_path]) @@ d

\* the backup copied instead of moved: the backup file stays
KeepBackups(b, backup_path) == b

MoveBackups(b, backup_path) ==
    [x \in (DOMAIN b) \ {backup_path} |-> b[x]]

\* the status test of lines 439-440 left out
RevertibleAnyStatus(batches, b, pos) ==
    /\ pos # <<0, 0>>
    /\ batches[pos[1]].suggestions[pos[2]].backup # NoBackup
    /\ batches[pos[1]].suggestions[pos[2]].backup \in DOMAIN b

\* lines 436-446: the suggestion can be reverted
Revertible(batches, b, pos) ==
    /\ pos # <<0, 0>>
    /\ batches[pos[1]].suggestions[pos[2]].status = "successfully_applied"
    /\ batches[pos[1]].suggestions[pos[2]].backup # NoBackup
    /\ batches[pos[1]].suggestions[pos[2]].backup \in DOMAIN b

\* lines 455-456: the record of a reverted suggestion
Reverted(s, t) ==
    [x \in (DOMAIN s) \cup {"reverted_at"} |->
        IF x = "status" THEN "reverted"
        ELSE IF x = "reverted_at" THEN t ELSE s[x]]

RevertOne(suggestion_id) ==
    /\ pc = "idle"
    /\ LET pos == FindSuggestion(applied, suggestion_id) IN
       IF "applied" \in corrupt \/ ~Revertible(applied, backups, pos)
       THEN /\ last' = Result("revertOne", <<suggestion_id>>, TRUE, 0, 0)
            /\ UNCHANGED <<docs, backups, applied, obj, writer>>
       ELSE LET s == applied[pos[1]].suggestions[pos[2]] IN
            /\ docs' = MoveDocs(docs, backups, s.backup, s.path)
            /\ backups' = MoveBackups(backups, s.backup)
            /\ applied' = [applied EXCEPT
                             ![pos[1]].suggestions[pos[2]] = Reverted(@, now)]
            /\ obj' = [obj EXCEPT ![s.uid].status = "reverted",
                                  ![s.uid].pre = <<>>]
            /\ writer' = [writer EXCEPT ![s.path] = NoWriter]
            /\ last' = Result("revertOne", <<suggestion_id>>, FALSE, 1, 0)
    /\ UNCHANGED <<now, pending, pc, mem, created, corrupt, gen>>

----------------------------------------------------------------------------
(* revert_all_updates *)

\* lines 489-522 for one suggestion; acc carries the files, the survivors of
\* the current batch and the counters
\* a suggestion whose revert failed dropped from the store like a reverted one
RevertStepDropFailed(acc, s) ==
    IF s.status = "successfully_applied"
    THEN IF s.backup = NoBackup \/ s.backup \notin DOMAIN acc.backups
         THEN [acc EXCEPT !.failed = @ + 1,
                          !.details = Append(@, <<s.id, "failed">>)]
         ELSE [acc EXCEPT
                 !.docs = MoveDocs(acc.docs, acc.backups, s.backup, s.path),
                 !.backups = MoveBackups(acc.backups, s.backup),
                 !.reverted = @ + 1,
                 !.details = Append(@, <<s.id, "reverted_and_removed">>),
                 !.moved = @ \cup {s.path},
                 !.gone = @ \cup {s.uid}]
    ELSE [acc EXCEPT !.surviving = Append(@, s)]

RevertStep(acc, s) ==
    IF s.status = "successfully_applied"
    THEN IF s.backup = NoBackup \/ s.backup \notin DOMAIN acc.backups
         THEN [acc EXCEPT !.failed = @ + 1,
                          !.details = Append(@, <<s.id, "failed">>),
                          !.surviving = Append(@, s)]
         ELSE [acc EXCEPT
                 !.docs = MoveDocs(acc.docs, acc.backups, s.backup, s.path),
                 !.backups = MoveBackups(acc.backups, s.backup),
                 !.reverted = @ + 1,
                 !.details = Append(@, <<s.id, "reverted_and_removed">>),
                 !.moved = @ \cup {s.path},
                 !.gone = @ \cup {s.uid}]
    ELSE [acc EXCEPT !.surviving = Append(@, s)]

RECURSIVE RevertSuggestions(_, _, _)
RevertSuggestions(acc, suggestions, j) ==
    IF j > Len(suggestions) THEN acc
    ELSE RevertSuggestions(RevertStep(acc, suggestions[j]), suggestions, j + 1)

\* lines 487-526: one batch, kept when a suggestion of it survives
RevertBatch(acc, batch) ==
    LET r == RevertSuggestions([acc EXCEPT !.surviving = <<>>],
                               batch.suggestions, 1)
    IN  IF r.surviving # <<>>
        THEN [r EXCEPT !.batches =
                 Append(@, [batch EXCEPT !.suggestions = r.surviving])]
        ELSE r

RECURSIVE RevertBatches(_, _, _)
RevertBatches(acc, batches, i) ==
    IF i > Len(batches) THEN acc
    ELSE RevertBatches(RevertBatch(acc, batches[i]), batches, i + 1)

RevertAllOutcome(batches, d, b) ==
    RevertBatches([docs |-> d, backups |-> b, batches |-> <<>>,
                   surviving |-> <<>>, reverted |-> 0, failed |-> 0,
                   details |-> <<>>, moved |-> {}, gone |-> {}],
                  batches, 1)

RevertAll ==
    /\ pc = "idle"
    /\ IF "applied" \in corrupt
       THEN /\ last' = Result("revertAll", <<>>, TRUE, 0, 0)
            /\ UNCHANGED <<docs, backups, applied, writer, obj>>
       ELSE LET r == RevertAllOutcome(applied, docs, backups) IN
            /\ docs' = r.docs
            /\ backups' = r.backups
            /\ applied' = r.batches
            /\ writer' = [p \in Paths |->
                            IF p \in r.moved THEN NoWriter ELSE writer[p]]
            /\ obj' = [u \in Uids |->
                         IF u \in r.gone THEN [obj[u] EXCEPT !.pre = <<>>]
                         ELSE obj[u]]
            /\ last' = Result("revertAll", r.details, FALSE,
                              r.reverted, r.failed)
    /\ UNCHANGED <<now, pending, pc, mem, created, corrupt, gen>>

----------------------------------------------------------------------------
(* get_applied_updates and get_update_statistics *)

\* lines 389-396
GetAppliedUpdates == LoadOrEmpty(applied, "applied")

\* the batches counted where the suggestions should be
CountBatches(batches) == Len(batches)

\* lines 404-405: sum(len(batch["suggestions"]) for batch in batches)
CountSuggestions(batches) == Len(Flatten(batches))

\* lines 398-413: <<pending_batches, pending_suggestions, applied_batches,
\* applied_suggestions, total_suggestions>>
GetUpdateStatistics ==
    LET pending_updates ==
            GetPendingUpdates(LoadOrEmpty(pending, "pending"), <<>>)
        applied_updates == GetAppliedUpdates
        pending_count == CountSuggestions(pending_updates)
        applied_count == CountSuggestions(applied_updates)
    IN  <<Len(pending_updates), pending_count, Len(applied_updates),
          applied_count, pending_count + applied_count>>

GetStatistics ==
    /\ pc = "idle"
    /\ last' = Result("statistics", GetUpdateStatistics, FALSE, 0, 0)
    /\ UNCHANGED <<now, docs, backups, pending, applied, pc, mem, created,
                   obj, writer, corrupt, gen>>

----------------------------------------------------------------------------
(* ai_analyzer: _parse_ai_response and the route analyze_and_save_changes. *)
(* A confidence_score is kept in tenths: 6 is 0.6.                         *)

FuzzyThresholdTenths == 8
FuzzyConfidence == 6

\* what the generator may write in original_content; the section may hold
\* the code marker (a backquote, written "#" here) too
Alphabet == {"a", "A", " ", "*"}

Texts(n) == UNION {[1..k -> Alphabet] : k \in 0..n}

\* the section handed to the analyzer (sections has this one element, so
\* lines 186-193 select it whatever section_title is)
Sections ==
    { [id |-> "f", title |-> <<"f">>, file_path |-> "f",
       content |-> <<"a", "a", " ", " ", "*", "*", "A", "a", "a">>],
      [id |-> "f", title |-> <<"f">>, file_path |-> "f",
       content |-> <<"a", "#", "a", " ", "A", "*">>] }

\* confidence_score values a generator may supply
Scores == {3, 9, 12}

\* one element of the "suggestions" list of the answer
SuggestionData(orig, tag, score) ==
    [orig |-> orig, sugg |-> <<tag>>, conf |-> score]

\* the answers: one suggestion with any original_content up to MaxLen, or
\* two suggestions with short ones
Answers ==
    {<<SuggestionData(o, "x", c)>> : o \in Texts(MaxLen), c \in Scores}
      \cup {<<SuggestionData(o[1], "x", c[1]), SuggestionData(o[2], "y", c[2])>> :
               o \in Texts(MaxPairLen) \X Texts(MaxPairLen),
               c \in Scores \X Scores}

\* str.lower
Lower(s) == [i \in 1..Len(s) |-> IF s[i] = "A" THEN "a" ELSE s[i]]

\* re.sub(r'\s+', ' ', text)
RECURSIVE CollapseFrom(_, _)
CollapseFrom(s, i) ==
    IF i > Len(s) THEN <<>>
    ELSE IF s[i] = " "
         THEN IF i > 1 /\ s[i - 1] = " "
              THEN CollapseFrom(s, i + 1)
              ELSE <<" ">> \o CollapseFrom(s, i + 1)
         ELSE <<s[i]>> \o CollapseFrom(s, i + 1)

CollapseWhitespace(s) == CollapseFrom(s, 1)

\* str.strip
Strip(s) ==
    LET solid == {i \in 1..Len(s) : s[i] # " "} IN
    IF solid = {} THEN <<>>
    ELSE SubSeq(s, CHOOSE i \in solid : \A j \in solid : i <= j,
                   CHOOSE i \in solid : \A j \in solid : i >= j)

\* the lower-casing of line 54 left out
NormalizeKeepCase(text) ==
    Strip(CollapseWhitespace(
        StrReplace(StrReplace(text, <<"*", "*">>, <<>>), <<"#">>, <<>>)))

\* _normalize_text, lines 49-54
NormalizeText(text) ==
    Lower(Strip(CollapseWhitespace(
        StrReplace(StrReplace(text, <<"*", "*">>, <<>>), <<"#">>, <<>>))))

\* the first matching block taken instead of the longest one
FindFirstMatch(a, b) ==
    LET blocks == {m \in (1..Len(a)) \X (1..Len(b)) \X (1..Len(a)) :
                      /\ m[1] + m[3] - 1 <= Len(a)
                      /\ m[2] + m[3] - 1 <= Len(b)
                      /\ \A d \in 0..(m[3] - 1) : a[m[1] + d] = b[m[2] + d]}
    IN  IF blocks = {} THEN <<1, 1, 0>>
        ELSE CHOOSE m \in blocks :
                 \A o \in blocks :
                     \/ m[1] < o[1]
                     \/ /\ m[1] = o[1]
                        /\ \/ m[2] < o[2]
                           \/ (m[2] = o[2] /\ m[3] <= o[3])

\* SequenceMatcher(None, a, b, autojunk=False).find_longest_match over all of
\* a and b: <<i, j, k>> with a[i..i+k-1] = b[j..j+k-1], k maximal, then i
\* minimal, then j minimal; k = 0 when nothing matches
FindLongestMatch(a, b) ==
    LET blocks == {m \in (1..Len(a)) \X (1..Len(b)) \X (1..Len(a)) :
                      /\ m[1] + m[3] - 1 <= Len(a)
                      /\ m[2] + m[3] - 1 <= Len(b)
                      /\ \A d \in 0..(m[3] - 1) : a[m[1] + d] = b[m[2] + d]}
    IN  IF blocks = {} THEN <<1, 1, 0>>
        ELSE CHOOSE m \in blocks :
                 \A o \in blocks :
                     \/ m[3] > o[3]
                     \/ /\ m[3] = o[3]
                        /\ \/ m[1] < o[1]
                           \/ (m[1] = o[1] /\ m[2] <= o[2])

\* the exact tier never taken
NeverExact(orig_content, content) == FALSE

\* line 197
IsExact(orig_content, content) == Contains(orig_content, content)

\* line 213
IsNormalized(orig_content, content) ==
    /\ NormalizeText(orig_content) # <<>>
    /\ Contains(NormalizeText(orig_content), NormalizeText(content))

\* line 229
IsFuzzy(orig_content, match) ==
    /\ match[3] > 0
    /\ 10 * match[3] > FuzzyThresholdTenths * Len(orig_content)

\* the UpdateSuggestion built at lines 199-208, 215-224 and 232-241
UpdateSuggestion(section, original_content, suggested_content, score) ==
    [section_id |-> section.id, section_title |-> section.title,
     path |-> section.file_path, orig |-> original_content,
     sugg |-> suggested_content, conf |-> score]

\* a suggestion that matches at no tier kept with its text as supplied
Unmatched(section, data) ==
    [tier |-> "none",
     out |-> <<UpdateSuggestion(section, data.orig, data.sugg, data.conf)>>]

\* lines 242-244: the suggestion is skipped
Skipped(section, data) == [tier |-> "none", out |-> <<>>]

\* lines 195-244 for one element of the answer: the tier taken and what is
\* appended to the suggestions
ParseSuggestion(section, data) ==
    LET orig_content == data.orig
        match == FindLongestMatch(orig_content, section.content)
    IN  IF IsExact(orig_content, section.content)
        THEN [tier |-> "exact",
              out |-> <<UpdateSuggestion(section, orig_content, data.sugg,
                                         data.conf)>>]
        ELSE IF IsNormalized(orig_content, section.content)
        THEN [tier |-> "normalized",
              out |-> <<UpdateSuggestion(section, orig_content, data.sugg,
                                         data.conf)>>]
        ELSE IF IsFuzzy(orig_content, match)
        THEN [tier |-> "fuzzy",
              out |-> <<UpdateSuggestion(section,
                            SubSeq(section.content, match[2],
                                   match[2] + match[3] - 1),
                            data.sugg, FuzzyConfidence)>>]
        ELSE Skipped(section, data)

\* lines 185-247: the loop over the answer
RECURSIVE ParseAiResponse(_, _, _)
ParseAiResponse(section, suggestion_list, idx) ==
    IF idx > Len(suggestion_list) THEN [tiers |-> <<>>, out |-> <<>>]
    ELSE LET r == ParseSuggestion(section, suggestion_list[idx])
             rest == ParseAiResponse(section, suggestion_list, idx + 1)
         IN  [tiers |-> <<r.tier>> \o rest.tiers, out |-> r.out \o rest.out]

\* routes/documentation.py, analyze_and_save_changes: parse the answer and
\* save what was accepted; nothing is saved when nothing was accepted
AnalyzeAndSave ==
    /\ gen.phase = "answered"
    /\ LET r == ParseAiResponse(gen.section, gen.todo, 1) IN
       IF r.out = <<>>
       THEN /\ gen' = [gen EXCEPT !.tiers = r.tiers, !.phase = "error"]
            /\ last' = Result("analyzeAndSave", <<>>, TRUE, 0, 0)
            /\ UNCHANGED <<now, docs, backups, pending, applied, pc, mem,
                           created, obj, writer, corrupt>>
       ELSE /\ gen' = [gen EXCEPT !.tiers = r.tiers, !.out = r.out,
                                  !.phase = "saved"]
            /\ SavePendingUpdates(r.out)

\* the analyzer holding an answer of the generator for a section
InitMatch ==
    /\ now = 0
    /\ backups = << >>
    /\ pending = << >>
    /\ applied = << >>
    /\ pc = "idle"
    /\ mem = NoMem
    /\ last = Result("init", <<>>, FALSE, 0, 0)
    /\ created = 0
    /\ obj = [u \in Uids |-> NoObj]
    /\ writer = [p \in Paths |-> NoWriter]
    /\ corrupt = {}
    /\ \E section \in Sections : \E answer \in Answers :
           /\ gen = [section |-> section, todo |-> answer, out |-> <<>>,
                     tiers |-> <<>>, phase |-> "answered"]
           /\ docs = [f |-> section.content, g |-> <<"b">>]

NextMatch == AnalyzeAndSave

SpecMatch == InitMatch /\ [][NextMatch]_vars

----------------------------------------------------------------------------
(* ai_analyzer: the section of a suggestion, _find_matching_section,       *)
(* _find_section_by_content and lines 186-194 of _parse_ai_response.       *)
(* A section is named by its place in the list; 0 is None.                 *)

\* titles, file paths and contents of the sections, and the section_title
\* and original_content a generator may write
SectionTitles == {<<>>, <<"a", "b">>, <<"b">>}
SectionPaths == {<<"x">>, <<"A">>}
SectionContents == {<<"a">>, <<"A", " ">>}
AiTitles == {<<>>, <<"a">>, <<"A", "b">>, <<"*", "*">>}
AiContents == {<<>>, <<"a">>, <<" ">>, <<"b">>}

\* the lists of candidate sections; the id of a section is unique (uuid4 at
\* doc_parser.py lines 67 and 79)
CandidateLists ==
    UNION {{[i \in 1..n |-> [id |-> i, title |-> c[i][1],
                              file_path |-> c[i][2], content |-> c[i][3]]] :
               c \in [1..n -> SectionTitles \X SectionPaths
                                  \X SectionContents]} :
           n \in 0..MaxCandidates}

\* the answers: one suggestion naming a section
TitledAnswers ==
    {<<[title |-> tt, orig |-> o, sugg |-> <<"x">>, conf |-> 9]>> :
        tt \in AiTitles, o \in AiContents}

\* the first of a non-empty set of places
First(S) == CHOOSE i \in S : \A j \in S : i <= j

\* lines 63-65 left out: an equal title counts as a partial match only
FindMatchingSectionNoExact(title, sections) ==
    IF title = <<>> THEN 0
    ELSE LET title_norm == NormalizeText(title)
             candidates ==
                 {i \in 1..Len(sections) :
                     \/ Contains(title_norm, NormalizeText(sections[i].title))
                     \/ Contains(NormalizeText(sections[i].title), title_norm)}
             by_path ==
                 {i \in candidates :
                     Contains(title_norm,
                              NormalizeText(sections[i].file_path))}
         IN  IF by_path # {} THEN First(by_path)
             ELSE IF candidates # {} THEN First(candidates)
             ELSE 0

\* lines 69-73 left out: the first partial match whatever its file path
FindMatchingSectionNoPath(title, sections) ==
    IF title = <<>> THEN 0
    ELSE LET title_norm == NormalizeText(title)
             equal == {i \in 1..Len(sections) :
                          NormalizeText(sections[i].title) = title_norm}
             candidates ==
                 {i \in 1..Len(sections) :
                     \/ Contains(title_norm, NormalizeText(sections[i].title))
                     \/ Contains(NormalizeText(sections[i].title), title_norm)}
         IN  IF equal # {} THEN First(equal)
             ELSE IF candidates # {} THEN First(candidates)
             ELSE 0

\* _find_matching_section, lines 56-77
FindMatchingSection(title, sections) ==
    IF title = <<>> THEN 0
    ELSE LET title_norm == NormalizeText(title)
             equal == {i \in 1..Len(sections) :
                          NormalizeText(sections[i].title) = title_norm}
             candidates ==
                 {i \in 1..Len(sections) :
                     \/ Contains(title_norm, NormalizeText(sections[i].title))
                     \/ Contains(NormalizeText(sections[i].title), title_norm)}
             by_path ==
                 {i \in candidates :
                     Contains(title_norm,
                              NormalizeText(sections[i].file_path))}
         IN  IF equal # {} THEN First(equal)
             ELSE IF by_path # {} THEN First(by_path)
             ELSE IF candidates # {} THEN First(candidates)
             ELSE 0

\* lines 94-100 left out: the first match whatever the title
FindSectionByContentFirst(content, sections, ai_section_title) ==
    IF content = <<>> THEN 0
    ELSE LET norm_content == NormalizeText(content)
             matches ==
                 {i \in 1..Len(sections) :
                     /\ norm_content # <<>>
                     /\ Contains(norm_content,
                                 NormalizeText(sections[i].content))}
         IN  IF matches = {} THEN 0 ELSE First(matches)

\* _find_section_by_content, lines 79-102
FindSectionByContent(content, sections, ai_section_title) ==
    IF content = <<>> THEN 0
    ELSE LET norm_content == NormalizeText(content)
             matches ==
                 {i \in 1..Len(sections) :
                     /\ norm_content # <<>>
                     /\ Contains(norm_content,
                                 NormalizeText(sections[i].content))}
             ai_title_norm == NormalizeText(ai_section_title)
             preferred ==
                 {i \in matches :
                     \/ Contains(ai_title_norm,
                                 NormalizeText(sections[i].file_path))
                     \/ Contains(ai_title_norm,
                                 NormalizeText(sections[i].title))}
         IN  IF matches = {} THEN 0
             ELSE IF Cardinality(matches) = 1 THEN First(matches)
             ELSE IF ai_section_title # <<>> /\ preferred # {}
             THEN First(preferred)
             ELSE First(matches)

\* lines 186-190: by title, else by content
ResolveSection(data, sections) ==
    LET by_title == FindMatchingSection(data.title, sections) IN
    IF by_title # 0 THEN by_title
    ELSE FindSectionByContent(data.orig, sections, data.title)

\* the last section taken where line 192 takes the first
SectionOrLast(resolved, sections) ==
    IF resolved # 0 THEN resolved ELSE Len(sections)

\* lines 191-193: sections[0] if sections else None
SectionOrFirst(resolved, sections) ==
    IF resolved # 0 THEN resolved
    ELSE IF sections # <<>> THEN 1 ELSE 0

\* lines 185-247 with the section of each suggestion looked up
RECURSIVE ParseAiResponseIn(_, _, _)
ParseAiResponseIn(sections, suggestion_list, idx) ==
    IF idx > Len(suggestion_list)
    THEN [tiers |-> <<>>, out |-> <<>>, resolved |-> <<>>, chosen |-> <<>>]
    ELSE LET data == suggestion_list[idx]
             resolved == ResolveSection(data, sections)
             section == SectionOrFirst(resolved, sections)
             r == IF section # 0 THEN ParseSuggestion(sections[section], data)
                  ELSE [tier |-> "none", out |-> <<>>]
             rest == ParseAiResponseIn(sections, suggestion_list, idx + 1)
         IN  [tiers |-> <<r.tier>> \o rest.tiers,
              out |-> r.out \o rest.out,
              resolved |-> <<resolved>> \o rest.resolved,
              chosen |-> <<section>> \o rest.chosen]

\* routes/documentation.py, analyze_and_save_changes, for an answer whose
\* suggestions name their sections
ResolveAndSave ==
    /\ gen.phase = "asked"
    /\ LET r == ParseAiResponseIn(gen.sections, gen.todo, 1) IN
       IF r.out = <<>>
       THEN /\ gen' = [gen EXCEPT !.tiers = r.tiers,
                                  !.resolved = r.resolved,
                                  !.chosen = r.chosen, !.phase = "error"]
            /\ last' = Result("analyzeAndSave", <<>>, TRUE, 0, 0)
            /\ UNCHANGED <<now, docs, backups, pending, applied, pc, mem,
                           created, obj, writer, corrupt>>
       ELSE /\ gen' = [gen EXCEPT !.tiers = r.tiers, !.out = r.out,
                                  !.resolved = r.resolved,
                                  !.chosen = r.chosen, !.phase = "saved"]
            /\ SavePendingUpdates(r.out)

\* the analyzer holding an answer of the generator and the candidate sections
InitResolve ==
    /\ now = 0
    /\ docs = InitDocs
    /\ backups = << >>
    /\ pending = << >>
    /\ applied = << >>
    /\ pc = "idle"
    /\ mem = NoMem
    /\ last = Result("init", <<>>, FALSE, 0, 0)
    /\ created = 0
    /\ obj = [u \in Uids |-> NoObj]
    /\ writer = [p \in Paths |-> NoWriter]
    /\ corrupt = {}
    /\ \E sections \in CandidateLists : \E answer \in TitledAnswers :
           gen = [sections |-> sections, todo |-> answer, out |-> <<>>,
                  tiers |-> <<>>, resolved |-> <<>>, chosen |-> <<>>,
                  phase |-> "asked"]

NextResolve == ResolveAndSave

SpecResolve == InitResolve /\ [][NextResolve]_vars

----------------------------------------------------------------------------
(* The system: one operation at a time (a single process serving one       *)
(* request to completion before the next), the clock running freely.       *)

Next ==
    \/ Tick
    \/ \E suggestions \in BatchInputs(MaxSuggestions - created) :
           CreateBatch(suggestions)
    \/ \E batch_id \in Filters : GetPending(batch_id)
    \/ GetStatistics
    \/ \E b \in BatchIds : \E ids \in IdSets(b) : ApproveCall(b, ids)
    \/ ApplyBackup
    \/ ApplyWrite
    \/ ApproveSave
    \/ ApproveMove
    \/ \E b \in BatchIds : \E ids \in IdSets(b) : Reject(b, ids)
    \/ \E id \in AllIds : RevertOne(id)
    \/ RevertAll

Spec == Init /\ [][Next]_vars

----------------------------------------------------------------------------
(* The system with a store file that may become unreadable or invalid      *)
(* JSON between two operations.                                            *)

StoreNames == {"pending", "applied"}

\* the file of a store is damaged: json.load on it raises from now on, until
\* an operation writes the file again
CorruptStore(name) ==
    /\ pc = "idle"
    /\ name \notin corrupt
    /\ corrupt' = corrupt \cup {name}
    /\ pending' = IF name = "pending" THEN <<>> ELSE pending
    /\ applied' = IF name = "applied" THEN <<>> ELSE applied
    /\ UNCHANGED <<now, docs, backups, pc, mem, last, created, obj, writer,
                   gen>>

NextFaults ==
    \/ Next
    \/ \E name \in StoreNames : CorruptStore(name)

SpecFaults == Init /\ [][NextFaults]_vars

----------------------------------------------------------------------------
(* Vocabulary of the properties *)

PendingSuggestions == Range(Flatten(pending))
AppliedSuggestions == Range(Flatten(applied))

Born == {u \in Uids : obj[u].status # "none"}

\* the first occurrence of old in s replaced by new, the rest of s kept
ReplaceFirst(s, old, new) ==
    LET i == CHOOSE k \in 1..(Len(s) + 1) :
                 /\ OccursAt(old, s, k)
                 /\ \A j \in 1..(k - 1) : ~OccursAt(old, s, j)
    IN  SubSeq(s, 1, i - 1) \o new \o SubSeq(s, i + Len(old), Len(s))

\* suggestion u is in the applied store, successfully applied
IsApplied(u) ==
    \E s \in AppliedSuggestions :
        s.uid = u /\ s.status = "successfully_applied"

----------------------------------------------------------------------------
(* C1: approving a pending suggestion whose file exists and then calling   *)
(* revertOne on its suggestion_id, with no other write to that file in     *)
(* between, restores the file to the content it had just before the patch, *)
(* and the suggestion's record ends with status reverted.                  *)
C1_ApplyRevertRoundTrip ==
    [][\A u \in Uids :
          (/\ IsApplied(u)
           /\ writer[obj[u].path] = {u}
           /\ RevertOne(obj[u].id))
          => /\ docs'[obj[u].path] = obj[u].pre
             /\ \E s \in Range(Flatten(applied')) :
                    s.uid = u /\ s.status = "reverted"]_vars

(* C2: after successful approvals only, a revertAll that finds every       *)
(* backup file leaves every file with the content it had before any of the *)
(* suggestions was applied.                                                *)
OnlyApprovalsSoFar ==
    /\ \A u \in Born : obj[u].status \in {"pending", "successfully_applied"}
    /\ \A u \in Born : obj[u].status = "successfully_applied" => IsApplied(u)

EveryBackupPresent ==
    /\ \A s \in AppliedSuggestions : s.backup \in DOMAIN backups
    /\ \A s1, s2 \in AppliedSuggestions :
           s1.uid # s2.uid => s1.backup # s2.backup

C2_RevertAllFullRollback ==
    [][(OnlyApprovalsSoFar /\ EveryBackupPresent /\ RevertAll)
          => docs' = InitDocs]_vars

(* C3: revertOne(id) succeeds only if id is in the applied store with      *)
(* status successfully_applied; for any other id it returns an error, and  *)
(* a call that returns an error changes no document, no backup and neither *)
(* store.                                                                  *)
C3_RevertOneOnlyFromApplied ==
    [][\A id \in AllIds :
          RevertOne(id) =>
              LET live == \E s \in AppliedSuggestions :
                              s.id = id /\ s.status = "successfully_applied"
              IN  /\ ~last'.error => live
                  /\ ~live => last'.error
                  /\ last'.error => UNCHANGED stores]_vars

\* a second revertOne of an id already reverted has returned an error
C3_Witness ==
    /\ last.op = "revertOne"
    /\ last.error
    /\ \E s \in AppliedSuggestions :
           s.id = last.arg[1] /\ s.status = "reverted"
    /\ \A s \in AppliedSuggestions :
           s.id = last.arg[1] => s.status # "successfully_applied"

(* C4: the status of a suggestion changes only along                       *)
(* pending -> approved -> successfully_applied, pending -> approved ->     *)
(* failed, pending -> rejected, successfully_applied -> reverted.          *)
LegalTransitions ==
    { <<"none", "pending">>,
      <<"pending", "approved">>,
      <<"approved", "successfully_applied">>,
      <<"approved", "failed">>,
      <<"pending", "rejected">>,
      <<"successfully_applied", "reverted">> }

C4_StatusTransitions ==
    [][\A u \in Uids :
          obj'[u].status # obj[u].status
              => <<obj[u].status, obj'[u].status>> \in LegalTransitions]_vars

\* one suggestion went all the way to reverted, another was refused
C4_Witness ==
    /\ \E u \in Uids : obj[u].status = "reverted"
    /\ \E u \in Uids : obj[u].status \in {"rejected", "failed"}

(* C5: approve or reject naming a suggestion that is not pending in that   *)
(* batch fails with an error result and leaves the pending store, the      *)
(* applied store and the documents unchanged.                              *)
NamesNonPending(batch_id, ids) ==
    LET idx == FindBatch(pending, batch_id) IN
    \E x \in ids :
        \/ idx = 0
        \/ \A s \in Range(pending[idx].suggestions) :
               s.id = x => s.status # "pending"

C5_NonPendingIsRefused ==
    [][\A b \in BatchIds : \A ids \in IdSets(b) :
          (NamesNonPending(b, ids) /\ (ApproveCall(b, ids) \/ Reject(b, ids)))
              => /\ last'.error
                 /\ pc' = "idle"
                 /\ UNCHANGED <<pending, applied, docs>>]_vars

(* C6: no suggestion_id is at the same time in the pending store and in    *)
(* the applied store.                                                      *)
C6_StoresDisjoint ==
    \A p \in PendingSuggestions : \A a \in AppliedSuggestions : p.id # a.id

(* C7: every suggestion_id is distinct from every suggestion_id of every   *)
(* other batch, whatever the clock values, and the i-th suggestion of a    *)
(* batch has the id derived from (batch_id, i).                            *)
C7_IdsNeverReused ==
    /\ [](\A u, v \in Born : u # v => obj[u].id # obj[v].id)
    /\ [][Len(pending') = Len(pending) + 1 =>
             LET batch == pending'[Len(pending')] IN
             \A j \in 1..Len(batch.suggestions) :
                 batch.suggestions[j].id = <<batch.batch_id, j - 1>>]_vars

(* C8: when approve(batchId, ids) returns, every suggestion of the batch   *)
(* named in ids is out of the pending store; those whose file existed (the *)
(* patch returned applied or applied_as_addition) are in the applied store *)
(* under batch_id, successfully_applied and with a backup_path, and they   *)
(* are the only records added; those whose patch failed are in no store.   *)
ApproveReturns == pc \in {"apply", "move"} /\ pc' = "idle"

C8_ApproveOutcome ==
    [][ApproveReturns =>
          LET chosen == {s \in Range(mem.tb) : s.id \in mem.ids}
              patched == {s.uid : s \in {x \in chosen : x.path \in DOMAIN docs}}
              before == {s.uid : s \in AppliedSuggestions}
              pendingAfter == {s.uid : s \in Range(Flatten(pending'))}
              appliedAfter == Range(Flatten(applied'))
          IN  /\ \A s \in chosen : s.uid \notin pendingAfter
              /\ {s.uid : s \in appliedAfter} \ before = patched
              /\ \A u \in patched :
                    \E k \in 1..Len(applied') :
                        /\ applied'[k].batch_id = mem.batch
                        /\ \E s \in Range(applied'[k].suggestions) :
                               /\ s.uid = u
                               /\ s.status = "successfully_applied"
                               /\ s.backup # NoBackup]_vars

\* an approve has returned with one suggestion applied and one failed
C8_Witness ==
    /\ last.op = "approve"
    /\ ~last.error
    /\ last.ok >= 1
    /\ last.failed >= 1

(* C9: when original_content occurs in the file, the patch replaces only   *)
(* its first occurrence and leaves the rest of the file unchanged.         *)
C9_FirstOccurrenceOnly ==
    [][(ApplyWrite /\ Contains(mem.tb[mem.k].orig, docs[mem.tb[mem.k].path]))
          => docs'[mem.tb[mem.k].path] =
                 ReplaceFirst(docs[mem.tb[mem.k].path],
                              mem.tb[mem.k].orig, mem.tb[mem.k].sugg)]_vars

(* C10: inside approve a document is written only by the patch of the      *)
(* current suggestion, and at that write the suggestion's backup file      *)
(* exists and holds the document's content as it is just before the write. *)
C10_BackupBeforeWrite ==
    [][(pc # "idle" /\ docs' # docs) =>
          /\ pc = "write"
          /\ mem.cur.bpath \in DOMAIN backups
          /\ mem.cur.bpath = BackupPath(mem.tb[mem.k].path, mem.cur.bpath[2])
          /\ backups[mem.cur.bpath] = docs[mem.tb[mem.k].path]
          /\ mem'.tb[mem.k].backup = mem.cur.bpath
          /\ \A p \in DOMAIN docs :
                 p # mem.tb[mem.k].path => docs'[p] = docs[p]]_vars

\* the backup is on disk and the document is still to be written
C10_Witness ==
    /\ pc = "write"
    /\ mem.cur.bpath \in DOMAIN backups
    /\ backups[mem.cur.bpath] = docs[mem.tb[mem.k].path]
    /\ mem.cur.updated # docs[mem.tb[mem.k].path]

(* C11: each successfully applied suggestion has its own backup file: no   *)
(* two successfully_applied suggestions share a backup_path, and until it  *)
(* is reverted the backup of a suggestion holds the content its file had   *)
(* just before that suggestion was applied.                                *)
C11_OwnBackup ==
    pc = "idle" =>
        /\ \A s1, s2 \in AppliedSuggestions :
               (/\ s1.uid # s2.uid
                /\ s1.status = "successfully_applied"
                /\ s2.status = "successfully_applied")
               => s1.backup # s2.backup
        /\ \A s \in AppliedSuggestions :
               s.status = "successfully_applied"
               => /\ s.backup \in DOMAIN backups
                  /\ backups[s.backup] = obj[s.uid].pre

(* C12: when original_content is not a substring of the existing file, the *)
(* patch takes a backup of the old content, writes the old content         *)
(* followed by the annotated block holding suggested_content, reports      *)
(* applied_as_addition, and approve records successfully_applied.          *)
C12_AppendFallback ==
    [][(ApplyWrite /\ ~Contains(mem.tb[mem.k].orig, docs[mem.tb[mem.k].path]))
          => LET s == mem.tb[mem.k]
                 old == docs[s.path]
             IN  /\ mem.cur.kind = "applied_as_addition"
                 /\ mem.cur.bpath \in DOMAIN backups
                 /\ backups[mem.cur.bpath] = old
                 /\ docs'[s.path] = old \o <<"<">> \o s.sugg \o <<">">>
                 /\ SubSeq(docs'[s.path], 1, Len(old)) = old
                 /\ mem'.tb[mem.k].status = "successfully_applied"
                 /\ mem'.succ[Len(mem'.succ)].uid = s.uid
                 /\ obj'[s.uid].status = "successfully_applied"]_vars

\* an approve has returned and a file ends with the block of a suggestion
\* that is recorded as successfully applied
C12_Witness ==
    /\ last.op = "approve"
    /\ \E s \in AppliedSuggestions :
           /\ s.status = "successfully_applied"
           /\ ~Contains(s.orig, obj[s.uid].pre)
           /\ docs[s.path] = obj[s.uid].pre \o <<"<">> \o s.sugg \o <<">">>

(* C13: when the file_path of an approved suggestion does not exist, the   *)
(* patch fails: no document and no backup is created or changed, the       *)
(* suggestion becomes failed and is counted in failed_count, it leaves the *)
(* pending batch and it is not added to the applied store.                 *)
C13_MissingFileFails ==
    [][/\ (ApplyBackup /\ mem.tb[mem.k].path \notin DOMAIN docs)
            => /\ docs' = docs
               /\ backups' = backups
               /\ mem'.tb[mem.k].status = "failed"
               /\ obj'[mem.tb[mem.k].uid].status = "failed"
       /\ ApproveReturns
            => LET missing == {s.uid : s \in {x \in Range(mem.tb) :
                                   /\ x.id \in mem.ids
                                   /\ x.path \notin DOMAIN docs}}
               IN  /\ last'.failed = Cardinality(missing)
                   /\ \A u \in missing :
                          /\ obj'[u].status = "failed"
                          /\ \A s \in Range(Flatten(pending')) : s.uid # u
                          /\ \A s \in Range(Flatten(applied')) : s.uid # u]_vars

\* an approve has returned and a suggestion for a missing file is failed,
\* in no store, with no file created at its path
C13_Witness ==
    /\ pc = "idle"
    /\ last.op = "approve"
    /\ last.failed >= 1
    /\ \E u \in Uids :
           /\ obj[u].status = "failed"
           /\ obj[u].path \notin DOMAIN docs
           /\ \A x \in DOMAIN backups : x[1] # obj[u].path
           /\ \A s \in PendingSuggestions \cup AppliedSuggestions : s.uid # u

C15_RejectRemovesExactly ==
    [][\A b \in BatchIds : \A ids \in IdSets(b) :
          (Reject(b, ids) /\ FindBatch(pending, b) # 0) =>
              LET idx == FindBatch(pending, b)
                  hit == {s.uid : s \in {x \in Range(pending[idx].suggestions) :
                                            x.id \in ids}}
                  kept == SelectSeq(pending[idx].suggestions,
                                    LAMBDA s : s.uid \notin hit)
              IN  /\ {s.uid : s \in Range(Flatten(pending'))}
                         = {s.uid : s \in PendingSuggestions} \ hit
                  /\ IF kept = <<>>
                     THEN pending' = SubSeq(pending, 1, idx - 1)
                                        \o SubSeq(pending, idx + 1, Len(pending))
                     ELSE /\ Len(pending') = Len(pending)
                          /\ pending'[idx].suggestions = kept
                          /\ \A i \in 1..Len(pending) :
                                 i # idx => pending'[i] = pending[i]
                  /\ UNCHANGED <<applied, docs, backups>>]_vars

\* a reject took one suggestion out of a batch and left the other pending
C15_Witness ==
    /\ last.op = "reject"
    /\ ~last.error
    /\ \E u, v \in Uids :
           /\ obj[u].status = "rejected"
           /\ obj[v].status = "pending"
           /\ obj[u].id[1] = obj[v].id[1]
           /\ obj[u].id[2] # obj[v].id[2]
           /\ \A s \in PendingSuggestions \cup AppliedSuggestions : s.uid # u
           /\ \E s \in PendingSuggestions : s.uid = v

(* C16: whenever an approve or a reject leaves a batch with no pending     *)
(* suggestion, the batch is removed from the pending store and is in no    *)
(* listPending() result, with or without a batch_id filter.                *)
C16_EmptyBatchRemoved ==
    [][/\ \A i \in 1..Len(pending) :
             (\A s \in Range(pending[i].suggestions) :
                  \A x \in Range(Flatten(pending')) : x.uid # s.uid)
             => /\ pending' = SubSeq(pending, 1, i - 1)
                                  \o SubSeq(pending, i + 1, Len(pending))
                /\ \A f \in Filters :
                       \A batch \in Range(GetPendingUpdates(pending', f)) :
                           \A x \in Range(batch.suggestions) :
                               \A s \in Range(pending[i].suggestions) :
                                   x.uid # s.uid
       /\ \A i \in 1..Len(pending') :
             \E s \in Range(pending'[i].suggestions) : s.status = "pending"
       /\ \A f \in Filters :
             \A batch \in Range(GetPendingUpdates(pending', f)) :
                 batch.suggestions # <<>>]_vars

\* two batches were created; a reject emptied the first, which is gone,
\* and the second is still listed
C16_Witness ==
    /\ last.op = "reject"
    /\ obj[1].status = "rejected"
    /\ obj[2].status = "pending"
    /\ obj[1].id[2] = 0
    /\ obj[2].id[2] = 0
    /\ Len(pending) = 1
    /\ pending[1].suggestions[1].uid = 2

(* C17: listPending returns exactly the stored batches that have a pending *)
(* suggestion (only the one with the given batch_id when one is passed),   *)
(* in stored order, each with only its pending suggestions in stored       *)
(* order, and it modifies neither store.                                   *)
C17_ListPendingView ==
    [][\A f \in Filters :
          GetPending(f) =>
              LET out == GetPendingUpdates(pending, f)
                  shown == {i \in 1..Len(pending) :
                              /\ \E s \in Range(pending[i].suggestions) :
                                     s.status = "pending"
                              /\ f # <<>> => pending[i].batch_id = f[1]}
                  Kth(k) == CHOOSE i \in shown :
                                Cardinality({j \in shown : j < i}) = k - 1
              IN  /\ Len(out) = Cardinality(shown)
                  /\ last'.ok = Cardinality(shown)
                  /\ \A k \in 1..Len(out) :
                         /\ out[k].batch_id = pending[Kth(k)].batch_id
                         /\ out[k].suggestions =
                                SelectSeq(pending[Kth(k)].suggestions,
                                          LAMBDA s : s.status = "pending")
                  /\ UNCHANGED <<pending, applied>>]_vars

\* two batches of different batch_id are stored and a listing filtered by
\* batch_id has returned one of them
C17_Witness ==
    /\ last.op = "listPending"
    /\ last.arg # <<>>
    /\ last.ok = 1
    /\ Len(pending) = 2
    /\ pending[1].batch_id # pending[2].batch_id

(* C18: createBatch appends one new batch holding the given suggestions in *)
(* input order, all with status pending, and leaves the batches already    *)
(* stored, the applied store and all document files unchanged.             *)
C18_CreateBatchFrame ==
    [][\A suggestions \in BatchInputs(MaxSuggestions - created) :
          CreateBatch(suggestions) =>
              /\ Len(pending') = Len(pending) + 1
              /\ SubSeq(pending', 1, Len(pending)) = pending
              /\ LET new == pending'[Len(pending')].suggestions IN
                 /\ Len(new) = Len(suggestions)
                 /\ \A j \in 1..Len(new) :
                        /\ new[j].path = suggestions[j].path
                        /\ new[j].orig = suggestions[j].orig
                        /\ new[j].sugg = suggestions[j].sugg
                        /\ new[j].status = "pending"
              /\ UNCHANGED <<applied, docs, backups>>]_vars

\* a second batch was stored after a first one, which is still there
C18_Witness ==
    /\ last.op = "createBatch"
    /\ Len(pending) = 2
    /\ pending[1].suggestions[1].uid = 1
    /\ pending[2].suggestions[1].uid = 2
    /\ pending[2].suggestions[1].status = "pending"

(* C19: a successful revertOne consumes the backup (the backup file is     *)
(* gone and the document holds what the backup held), keeps the record in  *)
(* the applied store with status reverted and a reverted_at timestamp, and *)
(* changes no other suggestion's record.                                   *)
C19_RevertOneConsumesBackup ==
    [][\A id \in AllIds :
          (RevertOne(id) /\ ~last'.error) =>
              LET pos == FindSuggestion(applied, id)
                  s == applied[pos[1]].suggestions[pos[2]]
              IN  /\ s.backup \notin DOMAIN backups'
                  /\ docs'[s.path] = backups[s.backup]
                  /\ pending' = pending
                  /\ Len(applied') = Len(applied)
                  /\ \A i \in 1..Len(applied) :
                         /\ applied'[i].batch_id = applied[i].batch_id
                         /\ Len(applied'[i].suggestions)
                                = Len(applied[i].suggestions)
                         /\ \A j \in 1..Len(applied[i].suggestions) :
                                LET r == applied'[i].suggestions[j] IN
                                IF <<i, j>> = pos
                                THEN /\ r.status = "reverted"
                                     /\ "reverted_at" \in DOMAIN r
                                     /\ r.reverted_at = now
                                     /\ \A x \in (DOMAIN s) \ {"status"} :
                                            r[x] = s[x]
                                ELSE r = applied[i].suggestions[j]]_vars

\* one of two applied suggestions has been reverted by revertOne; the
\* other is untouched and still has its backup
C19_Witness ==
    /\ last.op = "revertOne"
    /\ ~last.error
    /\ \E r, s \in AppliedSuggestions :
           /\ r.status = "reverted"
           /\ "reverted_at" \in DOMAIN r
           /\ r.backup \notin DOMAIN backups
           /\ s.status = "successfully_applied"
           /\ s.backup \in DOMAIN backups

(* C20: after revertAll the applied store holds no suggestion that the     *)
(* pass reverted and no batch with zero suggestions; when every suggestion *)
(* in the applied store was successfully_applied and every backup was      *)
(* present, the applied store is empty afterwards.                         *)
C20_RevertAllEmptiesStore ==
    [][RevertAll =>
          /\ \A i \in 1..Len(applied') : applied'[i].suggestions # <<>>
          /\ \A x \in Range(Flatten(applied')) :
                 /\ x \in AppliedSuggestions
                 /\ x.status = "reverted" => "reverted_at" \in DOMAIN x
          /\ Cardinality({s.uid : s \in AppliedSuggestions})
                 - Cardinality({s.uid : s \in Range(Flatten(applied'))})
             = last'.ok
          /\ (\A s \in AppliedSuggestions :
                  /\ s.status = "successfully_applied"
                  /\ s.backup \in DOMAIN backups)
             => applied' = <<>>]_vars

----------------------------------------------------------------------------
(* Vocabulary of the properties of the matcher *)

\* the answer has been parsed
Parsed == gen.phase \in {"saved", "error"}

Proposed(k) == gen.todo[k].orig
Supplied(k) == gen.todo[k].conf
SectionText == gen.section.content

\* place, among the accepted suggestions, of the k-th one of the answer
OutIndex(k) == Cardinality({j \in 1..k : gen.tiers[j] # "none"})

\* the stored suggestion that came from the k-th one of the answer
Persisted(k) == pending[Len(pending)].suggestions[OutIndex(k)]

\* normalizing as the matcher's contract words it: bold and code markers
\* stripped, whitespace runs collapsed to one space, lower-cased
Normal(s) ==
    Lower(CollapseWhitespace(
        StrReplace(StrReplace(s, <<"*", "*">>, <<>>), <<"#">>, <<>>)))

\* length of the longest contiguous text common to a and b
CommonLen(a, b) ==
    LET lens == {k \in 0..Len(a) :
                    \E i \in 1..(Len(a) - k + 1) :
                        Contains(SubSeq(a, i, i + k - 1), b)}
    IN  CHOOSE k \in lens : \A o \in lens : k >= o

(* C22: a proposed text that is a literal substring of the section is      *)
(* accepted at the exact tier: the persisted original_content is the       *)
(* proposed text unchanged and the confidence is the generator's score.    *)
C22_ExactTier ==
    Parsed =>
        \A k \in 1..Len(gen.todo) :
            Contains(Proposed(k), SectionText)
            => /\ gen.tiers[k] = "exact"
               /\ gen.phase = "saved"
               /\ Persisted(k).orig = Proposed(k)
               /\ Persisted(k).conf = Supplied(k)

\* a proposal that also matches after normalizing and as a common substring
\* was stored from the exact tier with an out-of-the-ordinary score
C22_Witness ==
    /\ gen.phase = "saved"
    /\ Len(gen.todo) = 1
    /\ Len(Proposed(1)) >= 3
    /\ gen.tiers[1] = "exact"
    /\ Supplied(1) = 3
    /\ pending[1].suggestions[1].orig = Proposed(1)
    /\ pending[1].suggestions[1].conf = 3

(* C23 as claimed: a proposed text that is not a literal substring of the  *)
(* section but whose normalized form is a substring of the normalized      *)
(* section is accepted at the normalized tier, original_content as         *)
(* supplied, confidence not lowered.                                       *)
C23_NormalizedTier ==
    Parsed =>
        \A k \in 1..Len(gen.todo) :
            (/\ ~Contains(Proposed(k), SectionText)
             /\ Contains(Normal(Proposed(k)), Normal(SectionText)))
            => /\ gen.tiers[k] = "normalized"
               /\ gen.phase = "saved"
               /\ Persisted(k).orig = Proposed(k)
               /\ Persisted(k).conf = Supplied(k)

(* C23 as amended: the same, for a proposed text whose normalized form     *)
(* holds something other than whitespace.                                  *)
C23_NormalizedTierNonEmpty ==
    Parsed =>
        \A k \in 1..Len(gen.todo) :
            (/\ ~Contains(Proposed(k), SectionText)
             /\ \E i \in 1..Len(Normal(Proposed(k))) :
                    Normal(Proposed(k))[i] # " "
             /\ Contains(Normal(Proposed(k)), Normal(SectionText)))
            => /\ gen.tiers[k] = "normalized"
               /\ gen.phase = "saved"
               /\ Persisted(k).orig = Proposed(k)
               /\ Persisted(k).conf = Supplied(k)

\* a proposal differing from the section in case only was stored as supplied
C23_Witness ==
    /\ gen.phase = "saved"
    /\ Len(gen.todo) = 1
    /\ gen.tiers[1] = "normalized"
    /\ ~Contains(Proposed(1), SectionText)
    /\ Contains(Lower(Proposed(1)), Lower(SectionText))
    /\ pending[1].suggestions[1].orig = Proposed(1)
    /\ pending[1].suggestions[1].conf = Supplied(1)

(* C24 as claimed: a proposed text matched by neither the exact nor the    *)
(* normalized tier whose longest common contiguous substring with the      *)
(* section has at least 80% of its length is accepted at the fuzzy tier,   *)
(* original_content being that common substring as it occurs in the        *)
(* section, with a confidence of at most 0.6.                              *)
C24_FuzzyTierAtLeast ==
    Parsed =>
        \A k \in 1..Len(gen.todo) :
            (/\ gen.tiers[k] \notin {"exact", "normalized"}
             /\ 10 * CommonLen(Proposed(k), SectionText)
                    >= 8 * Len(Proposed(k)))
            => /\ gen.tiers[k] = "fuzzy"
               /\ gen.phase = "saved"
               /\ Len(Persisted(k).orig) = CommonLen(Proposed(k), SectionText)
               /\ Contains(Persisted(k).orig, SectionText)
               /\ Contains(Persisted(k).orig, Proposed(k))
               /\ Persisted(k).conf <= 6

(* C24 as amended: the same, for a common substring of more than 80% of    *)
(* the length of the proposed text.                                        *)
C24_FuzzyTierMoreThan ==
    Parsed =>
        \A k \in 1..Len(gen.todo) :
            (/\ gen.tiers[k] \notin {"exact", "normalized"}
             /\ 10 * CommonLen(Proposed(k), SectionText)
                    > 8 * Len(Proposed(k)))
            => /\ gen.tiers[k] = "fuzzy"
               /\ gen.phase = "saved"
               /\ Len(Persisted(k).orig) = CommonLen(Proposed(k), SectionText)
               /\ Contains(Persisted(k).orig, SectionText)
               /\ Contains(Persisted(k).orig, Proposed(k))
               /\ Persisted(k).conf <= 6

\* a proposal with one wrong character out of six was stored with the
\* section's five characters
C24_Witness ==
    /\ gen.phase = "saved"
    /\ Len(gen.todo) = 1
    /\ gen.tiers[1] = "fuzzy"
    /\ Len(Proposed(1)) = 6
    /\ Len(pending[1].suggestions[1].orig) = 5
    /\ Contains(pending[1].suggestions[1].orig, SectionText)
    /\ pending[1].suggestions[1].orig # Proposed(1)

(* C25: a suggestion that matches its section at no tier is dropped before *)
(* the batch is created: it is not stored and not reported as failed; the  *)
(* suggestions of the same answer that do match are stored, in their       *)
(* original order.                                                         *)
C25_UnmatchedDropped ==
    Parsed =>
        LET kept == {k \in 1..Len(gen.todo) : gen.tiers[k] # "none"} IN
        /\ \A u \in Uids : obj[u].status \in {"none", "pending"}
        /\ Len(gen.tiers) = Len(gen.todo)
        /\ IF kept = {}
           THEN pending = <<>> /\ gen.phase = "error"
           ELSE /\ gen.phase = "saved"
                /\ Len(pending) = 1
                /\ Len(GetPendingUpdates(pending, <<>>)) = 1
                /\ Len(pending[1].suggestions) = Cardinality(kept)
                /\ \A k \in kept :
                       /\ pending[1].suggestions[OutIndex(k)].sugg
                              = gen.todo[k].sugg
                       /\ pending[1].suggestions[OutIndex(k)].status
                              = "pending"

\* of two suggestions the first matched at no tier and the second exactly:
\* one batch with the second alone is stored
C25_Witness ==
    /\ gen.phase = "saved"
    /\ gen.tiers = <<"none", "exact">>
    /\ Len(pending) = 1
    /\ Len(pending[1].suggestions) = 1
    /\ pending[1].suggestions[1].sugg = gen.todo[2].sugg
    /\ pending[1].suggestions[1].sugg # gen.todo[1].sugg

(* C26: every stored suggestion has a confidence_score within [0, 1],      *)
(* whatever score the generator supplied.                                  *)
C26_ConfidenceInRange ==
    \A s \in PendingSuggestions : 0 <= s.conf /\ s.conf <= 10

(* C27: the confidence_score stored for a fuzzy-matched suggestion is      *)
(* never above the score the generator supplied for it.                    *)
C27_FuzzyNeverAbove ==
    gen.phase = "saved" =>
        \A k \in 1..Len(gen.todo) :
            gen.tiers[k] = "fuzzy" => Persisted(k).conf <= Supplied(k)

----------------------------------------------------------------------------
(* Vocabulary of the properties of results and of damaged stores *)

\* dicts whose status goes from `from` to `to` in the step
Moved(from, to) ==
    {u \in Uids : obj[u].status = from /\ obj'[u].status = to}

\* dicts that the step takes out of / puts into a list of batches
Uidset(batches) == {s.uid : s \in Range(Flatten(batches))}

(* C28: the counts in the results of approve and reject equal what         *)
(* happened in the stores: approved_count is the number of suggestions     *)
(* moved to the applied store, failed_count the number reclassified        *)
(* failed, rejected_count the number of suggestions marked rejected and    *)
(* removed from the batch.                                                 *)
C28_CountsAreActual ==
    [][/\ ApproveReturns =>
            /\ last'.ok = Cardinality(Uidset(applied') \ Uidset(applied))
            /\ last'.failed =
                   Cardinality({s.uid : s \in {x \in Range(mem.tb) :
                                   x.id \in mem.ids /\ x.status = "failed"}})
       /\ \A b \in BatchIds : \A ids \in IdSets(b) :
              (Reject(b, ids) /\ ~last'.error) =>
                  /\ last'.ok = Cardinality(Moved("pending", "rejected"))
                  /\ last'.ok = Cardinality(Uidset(pending)
                                               \ Uidset(pending'))]_vars

(* C29: statistics() changes neither store nor any file and returns        *)
(* pendingSuggestions = the number of pending-status suggestions in the    *)
(* pending store, appliedSuggestions = the number of suggestions in the    *)
(* applied store, total = their sum.                                       *)
C29_Statistics ==
    [][GetStatistics =>
          /\ UNCHANGED <<pending, applied, docs, backups>>
          /\ last'.arg[2] = Cardinality({s \in PendingSuggestions :
                                            s.status = "pending"})
          /\ last'.arg[4] = Cardinality(AppliedSuggestions)
          /\ last'.arg[5] = last'.arg[2] + last'.arg[4]]_vars

\* statistics have been returned with one suggestion pending and one in the
\* applied store
C29_Witness ==
    /\ last.op = "statistics"
    /\ last.arg = <<1, 1, 1, 1, 2>>
    /\ Cardinality(PendingSuggestions) = 1
    /\ Cardinality(AppliedSuggestions) = 1

(* C30: when the pending or the applied store file is unreadable or        *)
(* invalid JSON, every operation treats it as an empty collection and      *)
(* returns no load error: the listings return nothing, createBatch stores  *)
(* the new batch, and approve, reject, revertOne and revertAll behave as   *)
(* on an empty store (batch or suggestion not found; revertAll reverts     *)
(* nothing and reports zero counts).                                       *)
C30_CorruptReadAsEmpty ==
    [][/\ \A f \in Filters :
              (GetPending(f) /\ "pending" \in corrupt)
                  => ~last'.error /\ last'.ok = 0
       /\ (GetStatistics /\ corrupt # {}) =>
              /\ "pending" \in corrupt
                     => last'.arg[1] = 0 /\ last'.arg[2] = 0
              /\ "applied" \in corrupt
                     => last'.arg[3] = 0 /\ last'.arg[4] = 0
       /\ \A n \in 1..MaxSuggestions : \A suggestions \in BatchInputs(n) :
              (CreateBatch(suggestions) /\ "pending" \in corrupt)
                  => /\ Len(pending') = 1
                     /\ Len(pending'[1].suggestions) = Len(suggestions)
       /\ \A b \in BatchIds : \A ids \in IdSets(b) :
              ((ApproveCall(b, ids) \/ Reject(b, ids))
                   /\ "pending" \in corrupt)
                  => last'.error /\ pc' = "idle" /\ UNCHANGED stores
       /\ \A id \in AllIds :
              (RevertOne(id) /\ "applied" \in corrupt)
                  => last'.error /\ UNCHANGED stores
       /\ (RevertAll /\ "applied" \in corrupt)
              => /\ ~last'.error
                 /\ last'.ok = 0
                 /\ last'.failed = 0
                 /\ UNCHANGED stores]_vars

----------------------------------------------------------------------------
(* Vocabulary of the properties of the section resolver *)

Candidates == 1..Len(gen.sections)
AiTitle(k) == gen.todo[k].title
AiTitleNorm(k) == NormalizeText(gen.todo[k].title)
AiContentNorm(k) == NormalizeText(gen.todo[k].orig)

\* candidates whose normalized title equals the normalized AI title
EqualTitle(k) ==
    {i \in Candidates : NormalizeText(gen.sections[i].title) = AiTitleNorm(k)}

\* candidates whose normalized title contains it or is contained in it
PartialTitle(k) ==
    {i \in Candidates :
        \/ Contains(AiTitleNorm(k), NormalizeText(gen.sections[i].title))
        \/ Contains(NormalizeText(gen.sections[i].title), AiTitleNorm(k))}

(* C31 as claimed: if some candidate's normalized title equals the         *)
(* normalized AI-supplied title, resolve returns the first such candidate, *)
(* even when an earlier candidate matches by partial containment only.     *)
C31_EqualTitleFirst ==
    Parsed =>
        \A k \in 1..Len(gen.todo) :
            EqualTitle(k) # {} => gen.resolved[k] = First(EqualTitle(k))

(* C31 as amended: the same, for an AI-supplied title that is not the      *)
(* empty string.                                                           *)
C31_EqualTitleFirstNonEmpty ==
    Parsed =>
        \A k \in 1..Len(gen.todo) :
            (AiTitle(k) # <<>> /\ EqualTitle(k) # {})
                => gen.resolved[k] = First(EqualTitle(k))

\* the first candidate contains the title, the second one has it: the second
\* is returned
C31_Witness ==
    /\ Parsed
    /\ Len(gen.sections) = 2
    /\ AiTitle(1) # <<>>
    /\ EqualTitle(1) = {2}
    /\ PartialTitle(1) = {1, 2}
    /\ gen.resolved[1] = 2

C34_SectionIsCandidate ==
    Parsed =>
        /\ \A k \in 1..Len(gen.todo) :
               /\ gen.resolved[k] \in Candidates \cup {0}
               /\ gen.chosen[k] = IF gen.resolved[k] # 0 THEN gen.resolved[k]
                                  ELSE IF gen.sections # <<>> THEN 1 ELSE 0
               /\ gen.chosen[k] = 0 => gen.tiers[k] = "none"
               /\ gen.tiers[k] # "none" =>
                      /\ gen.phase = "saved"
                      /\ Persisted(k).section_id
                             = gen.sections[gen.chosen[k]].id
                      /\ Persisted(k).section_title
                             = gen.sections[gen.chosen[k]].title
                      /\ Persisted(k).path
                             = gen.sections[gen.chosen[k]].file_path
        /\ gen.sections = <<>> => pending = <<>>
        /\ \A s \in PendingSuggestions :
               \E i \in Candidates :
                   /\ s.section_id = gen.sections[i].id
                   /\ s.section_title = gen.sections[i].title
                   /\ s.path = gen.sections[i].file_path

\* nothing resolved among two different candidates and the suggestion was
\* stored for the first one
C34_Witness ==
    /\ gen.phase = "saved"
    /\ Len(gen.sections) = 2
    /\ gen.sections[1].title # gen.sections[2].title
    /\ gen.sections[1].file_path # gen.sections[2].file_path
    /\ gen.resolved[1] = 0
    /\ gen.chosen[1] = 1
    /\ pending[1].suggestions[1].section_id = gen.sections[1].id
    /\ pending[1].suggestions[1].section_title = gen.sections[1].title

----------------------------------------------------------------------------
(* Vocabulary of the properties of the stores as persisted *)

\* the store holds dict u with this status
HeldAs(batches, u, status) ==
    \E s \in Range(Flatten(batches)) : s.uid = u /\ s.status = status

\* what approve and reject may write for (batch_id, ids): the first batch
\* with this batch_id keeps, in order and unchanged, its suggestions whose id
\* is not in ids, and is deleted when none is left; nothing else changes
OnlyNamedRemoved(batch_id, ids) ==
    LET found == {i \in 1..Len(pending) : pending[i].batch_id = batch_id}
        idx == First(found)
        kept == SelectSeq(pending[idx].suggestions, LAMBDA s : s.id \notin ids)
    IN  /\ found # {}
        /\ pending' = IF kept = <<>>
                      THEN SubSeq(pending, 1, idx - 1)
                               \o SubSeq(pending, idx + 1, Len(pending))
                      ELSE [pending EXCEPT ![idx].suggestions = kept]

NoSuchBatch(batch_id) ==
    \A i \in 1..Len(pending) : pending[i].batch_id # batch_id

(* C35: if the process stops at any point inside approve, the persisted    *)
(* state is consistent: every suggestion whose document was modified by    *)
(* the call is recorded either as pending in the pending store or as       *)
(* successfully_applied with its backup_path in the applied store.         *)
C35_CrashConsistent ==
    pc # "idle" =>
        \A s \in Range(mem.succ) :
            \/ HeldAs(pending, s.uid, "pending")
            \/ \E a \in AppliedSuggestions :
                   /\ a.uid = s.uid
                   /\ a.status = "successfully_applied"
                   /\ a.backup # NoBackup

(* C36: in every reachable state every suggestion in the applied store has *)
(* status successfully_applied or reverted and carries a backup_path.      *)
C36_AppliedStoreStatuses ==
    \A s \in AppliedSuggestions :
        /\ s.status \in {"successfully_applied", "reverted"}
        /\ s.backup # NoBackup

\* the applied store holds a reverted and a successfully applied suggestion
C36_Witness ==
    \E s1, s2 \in AppliedSuggestions :
        /\ s1.status = "reverted"
        /\ s2.status = "successfully_applied"
        /\ s1.backup # NoBackup
        /\ s2.backup # NoBackup

(* C37: in every reachable state the pending store holds only suggestions  *)
(* with status pending.                                                    *)
C37_PendingStoreStatuses ==
    \A s \in PendingSuggestions : s.status = "pending"

\* an approve that applied one suggestion of a batch has returned and the
\* other suggestion of the batch is in the pending store
C37_Witness ==
    /\ last.op = "approve"
    /\ last.ok = 1
    /\ \E a \in AppliedSuggestions : \E s \in PendingSuggestions :
           /\ a.id[1] = s.id[1]
           /\ a.uid # s.uid
           /\ s.status = "pending"

(* C38: approve(batchId, ids) and reject(batchId, ids) change only the     *)
(* batch identified by batchId: every other pending batch, and the         *)
(* suggestions of that batch whose id is not in ids, keep content, status  *)
(* and order; reject leaves the applied store unchanged; an unknown        *)
(* batchId returns an error with nothing written.                          *)
C38_OnlyTheNamedBatch ==
    [][/\ ApproveSave => OnlyNamedRemoved(mem.batch, mem.ids)
       /\ (ApplyBackup \/ ApplyWrite \/ ApproveMove) => UNCHANGED pending
       /\ \A b \in BatchIds : \A ids \in IdSets(b) :
              /\ ApproveCall(b, ids) =>
                     /\ UNCHANGED stores
                     /\ NoSuchBatch(b) => last'.error /\ pc' = "idle"
              /\ Reject(b, ids) =>
                     /\ UNCHANGED applied
                     /\ IF NoSuchBatch(b)
                        THEN last'.error /\ UNCHANGED stores
                        ELSE OnlyNamedRemoved(b, ids)]_vars

\* a reject has taken the suggestion of one batch and a batch with another
\* batch_id is still in the pending store
C38_Witness ==
    /\ last.op = "reject"
    /\ ~last.error
    /\ \E u \in Uids : \E s \in PendingSuggestions :
           /\ obj[u].status = "rejected"
           /\ s.id[1] # obj[u].id[1]
           /\ s.status = "pending"

(* C39: if two suggestions are applied one after the other to the same     *)
(* file and both are then reverted with revertOne, in either order, the    *)
(* file ends with the content it had before the first of them was applied. *)
C39_RevertBothAnyOrder ==
    \A u, v \in Uids :
        (/\ u # v
         /\ obj[u].status = "reverted"
         /\ obj[v].status = "reverted"
         /\ obj[u].path = obj[v].path)
        => docs[obj[u].path] = InitDocs[obj[u].path]

====
